---- MODULE Spec2Model ----
(***************************************************************************)
(* Model of the library catalog portal (src/app.py): librarian sessions,   *)
(* the login / logout / dashboard handlers and the books.csv file they     *)
(* read and rewrite.  Text values are sequences of one-character strings,  *)
(* so that str.strip() and int() are computed, not assumed.                *)
(***************************************************************************)
EXTENDS Integers, Sequences, FiniteSets, TLC

\* ------------------------------------------------------------------ bounds
\* The model follows the handlers up to this many calls of save_csv_safe.
MaxSaves == 2

\* Two browsers, each with its own session cookie.
Clients == {"c1", "c2"}

\* ------------------------------------------------------------------- text
\* request.form.get(k) of a field the form does not carry (Python None).
Absent == <<"<None>">>

\* A session without "library_id" / a librarian row whose library_id is NaN.
NoLib == -1

RECURSIVE lstrip(_)
lstrip(s) == IF s # <<>> /\ Head(s) = " " THEN lstrip(Tail(s)) ELSE s

RECURSIVE rstrip(_)
rstrip(s) ==
    IF s # <<>> /\ s[Len(s)] = " " THEN rstrip(SubSeq(s, 1, Len(s) - 1)) ELSE s

\* str.strip()
strip(s) == rstrip(lstrip(s))

\* (request.form.get(k) or "").strip()
form_get(v) == IF v = Absent THEN <<>> ELSE strip(v)

DigitChars == <<"0", "1", "2", "3", "4", "5", "6", "7", "8", "9">>

IsDigit(ch) == \E i \in 1..Len(DigitChars) : DigitChars[i] = ch

DigitVal(ch) == (CHOOSE i \in 1..Len(DigitChars) : DigitChars[i] = ch) - 1

RECURSIVE DecimalVal(_)
DecimalVal(s) ==
    IF s = <<>> THEN 0
    ELSE 10 * DecimalVal(SubSeq(s, 1, Len(s) - 1)) + DigitVal(s[Len(s)])

\* int(request.form.get("book_id")) inside try/except: int(None) and
\* int("x") raise, int(" 2 ") is 2.
parse_int(v) ==
    IF v = Absent THEN [ok |-> FALSE, val |-> 0]
    ELSE LET t == strip(v)
         IN IF t # <<>> /\ \A i \in 1..Len(t) : IsDigit(t[i])
            THEN [ok |-> TRUE, val |-> DecimalVal(t)]
            ELSE [ok |-> FALSE, val |-> 0]

\* ------------------------------------------------------------- librarians
\* librarians.csv is read-only; carol's library_id cell is empty.
Librarians ==
    << [username |-> <<"a">>, password |-> <<"p">>, library_id |-> 5],
       [username |-> <<"b">>, password |-> <<"q">>, library_id |-> 7],
       [username |-> <<"c">>, password |-> <<"p">>, library_id |-> NoLib] >>

NoSession == [username |-> <<>>, library_id |-> NoLib]

\* ------------------------------------------------------------------ state
VARIABLES
    books,      \* rows of books.csv, in file order
    bstat,      \* "ok" | "missing" | "zero" (zero bytes: truncated, no header)
    session,    \* per client: the session cookie
    pc,         \* per client: "idle" | "loaded" | "saving"
    req,        \* per client: the dashboard POST being handled
    df,         \* per client: books_df as loaded by load_csv_safe
    pend,       \* per client: books_df as handed to save_csv_safe
    io,         \* per client: notices flashed and datasets touched so far
    resp,       \* the response of the request that finished last
    deleted,    \* book_ids removed by deletes that reported success
    saves,      \* calls of save_csv_safe so far
    budget,     \* calls of save_csv_safe the run follows
    trail,      \* the mutations that reported success, in order
    libs,       \* rows of libraries.csv, in file order
    lstat,      \* "ok" | "missing"
    view        \* what the last search / all-books / home response shows

vars ==
    <<books, bstat, session, pc, req, df, pend, io, resp, deleted, saves,
      budget, trail, libs, lstat, view>>


\* ----------------------------------------------------------------- inputs
\* Libraries a dashboard URL may name (/dashboard/<int:library_id>).
UrlLibs == {5, 7}

ValidTitle == <<" ", "G">>

ValidAuthor == <<"A", " ">>

NoReq ==
    [method |-> "", lib |-> NoLib, action |-> "",
     book_id |-> Absent, title |-> Absent, author |-> Absent]

Post(l, action, b, t, a) ==
    [method |-> "POST", lib |-> l, action |-> action,
     book_id |-> b, title |-> t, author |-> a]

\* The book_id fields a form submits: three ids, a non-number, none.
BookIdInputs == {<<" ", "1", " ">>, <<"2">>, <<"3">>, <<"x">>, Absent}

\* The requests sent to /dashboard/<lib>.
DashboardRequests ==
    {[NoReq EXCEPT !.method = "GET", !.lib = l] : l \in UrlLibs}
    \cup {Post(l, "other", Absent, Absent, Absent) : l \in UrlLibs}
    \cup {Post(l, "add", Absent, ValidTitle, ValidAuthor) : l \in UrlLibs}
    \cup {Post(l, "add", Absent, <<" ">>, <<"A">>) : l \in UrlLibs}
    \cup {Post(l, "add", Absent, <<"G">>, Absent) : l \in UrlLibs}
    \cup {Post(l, "edit", b, ValidTitle, ValidAuthor) :
            l \in UrlLibs, b \in BookIdInputs}
    \cup {Post(l, "edit", <<"2">>, <<" ">>, <<"A">>) : l \in UrlLibs}
    \cup {Post(l, "edit", <<"3">>, <<"G">>, Absent) : l \in UrlLibs}
    \cup {Post(l, "delete", b, Absent, Absent) : l \in UrlLibs, b \in BookIdInputs}

\* The <<username, password>> pairs typed into each browser's login form.
LoginInputs(c) ==
    IF c = "c1"
    THEN { <<Absent, <<"p">>>>, <<<<"a", " ">>, <<" ", "p">>>>,
           <<<<"a">>, <<"q">>>>, <<<<"a">>, <<" ">>>>, <<<<"c">>, <<"p">>>> }
    ELSE { <<<<"b">>, <<"q">>>>, <<<<"b">>, <<"p">>>>, <<<<"z">>, <<"p">>>>,
           <<<<" ">>, <<"q">>>> }

Book(i, t, a, l) == [book_id |-> i, title |-> t, author |-> a, library_id |-> l]

\* The datasets books.csv may hold at start (none when the file is missing);
\* book_id is unique in each.
InitBooks ==
    { <<>>,
      << Book(3, <<"t">>, <<"u">>, 7), Book(7, <<"t">>, <<"u">>, 5),
         Book(2, <<"G">>, <<"A">>, 5) >> }

\* One more starting dataset for the runs that record deletions.
HistBooks ==
    InitBooks \cup
    { << Book(1, <<"t">>, <<"u">>, 5), Book(2, <<"t">>, <<"u">>, 7) >> }

\* libraries.csv as deployed: two branches sharing a pincode that starts
\* with a zero, listed with the later name first.
Libraries ==
    << [library_id |-> 5, name |-> <<"N">>, pincode |-> <<"0", "5">>,
        contact |-> <<"k">>],
       [library_id |-> 7, name |-> <<"C">>, pincode |-> <<"0", "5">>,
        contact |-> <<"m">>] >>

\* Nothing shown: the response carries no search or listing context.
NoView == [kind |-> "none", rows |-> <<>>]

\* ----------------------------------------------------------- record store
\* Mutant: whatever rows the file holds are returned, parseable or not.
load_csv_safe_lenient(rows, stat) ==
    CASE stat = "missing" ->
            [rows |-> <<>>, flash |-> <<"Missing data file: books.csv">>]
      [] OTHER -> [rows |-> rows, flash |-> <<>>]

\* load_csv_safe("books.csv", ...): the rows, or an empty frame and an error
\* notice when the file is missing or cannot be parsed.
load_csv_safe(rows, stat) ==
    CASE stat = "ok" -> [rows |-> rows, flash |-> <<>>]
      [] stat = "missing" ->
            [rows |-> <<>>, flash |-> <<"Missing data file: books.csv">>]
      [] OTHER -> [rows |-> <<>>, flash |-> <<"Error loading books.csv">>]

\* What the file holds once a writer that opened it with mode "w" has written
\* `rows` from offset 0 and closed: open() truncated the file, the write does
\* not, so rows another writer stored meanwhile beyond Len(rows) stay.
to_csv(rows, onDisk) ==
    IF Len(onDisk) > Len(rows)
    THEN rows \o SubSeq(onDisk, Len(rows) + 1, Len(onDisk))
    ELSE rows

\* ------------------------------------------------------ catalog mutations
RECURSIVE max_book_id(_)
\* books_df["book_id"].max() of a non-empty frame
max_book_id(rows) ==
    IF Len(rows) = 1 THEN rows[1].book_id
    ELSE LET m == max_book_id(Tail(rows))
         IN IF rows[1].book_id > m THEN rows[1].book_id ELSE m

\* new_id = int(books_df["book_id"].max()) + 1 if not books_df.empty else 1
new_id(rows) == IF rows = <<>> THEN 1 ELSE max_book_id(rows) + 1

Reject(msg) == [kind |-> "redirect", flash |-> <<msg>>, pend |-> <<>>]

Save(rows) == [kind |-> "save", flash |-> <<>>, pend |-> rows]

\* Mutant: the new id counts only the caller's own rows.
add_book_own_max(rows, r) ==
    LET title == form_get(r.title)
        author == form_get(r.author)
        own == SelectSeq(rows, LAMBDA b : b.library_id = r.lib)
    IN IF title = <<>> \/ author = <<>>
       THEN Reject("Title and author are required.")
       ELSE Save(Append(rows, Book(new_id(own), title, author, r.lib)))

\* action == "add"
add_book(rows, r) ==
    LET title == form_get(r.title)
        author == form_get(r.author)
    IN IF title = <<>> \/ author = <<>>
       THEN Reject("Title and author are required.")
       ELSE Save(Append(rows, Book(new_id(rows), title, author, r.lib)))

\* Mutant: the assignment ignores the mask.
set_title_author_all(rows, id, title, author) ==
    [i \in 1..Len(rows) |-> [rows[i] EXCEPT !.title = title, !.author = author]]

\* books_df.loc[mask, ["title", "author"]] = [title, author]
set_title_author(rows, id, title, author) ==
    [i \in 1..Len(rows) |->
        IF rows[i].book_id = id
        THEN [rows[i] EXCEPT !.title = title, !.author = author]
        ELSE rows[i]]

\* action == "edit"
edit_book(rows, r) ==
    LET id == parse_int(r.book_id)
        title == form_get(r.title)
        author == form_get(r.author)
    IN IF ~id.ok THEN Reject("Invalid book id.")
       ELSE IF title = <<>> \/ author = <<>>
       THEN Reject("Title and author are required.")
       ELSE IF ~\E i \in 1..Len(rows) : rows[i].book_id = id.val
       THEN Reject("Book not found.")
       ELSE Save(set_title_author(rows, id.val, title, author))

\* Mutant: the kept rows come out in reverse order.
drop_book_reversed(rows, id) ==
    LET kept == SelectSeq(rows, LAMBDA b : b.book_id # id)
    IN [i \in 1..Len(kept) |-> kept[Len(kept) + 1 - i]]

\* Mutant: every row up to the given book_id goes.
drop_book_upto(rows, id) == SelectSeq(rows, LAMBDA b : b.book_id > id)

\* Mutant: the remaining rows are renumbered from 1.
drop_book_reindex(rows, id) ==
    LET kept == SelectSeq(rows, LAMBDA b : b.book_id # id)
    IN [i \in 1..Len(kept) |-> [kept[i] EXCEPT !.book_id = i]]

\* books_df[books_df["book_id"] != book_id]
drop_book(rows, id) == SelectSeq(rows, LAMBDA b : b.book_id # id)

\* Mutant: the row count is not compared; the frame is saved either way.
delete_book_unchecked(rows, r) ==
    LET id == parse_int(r.book_id)
    IN IF ~id.ok THEN Reject("Invalid book id.")
       ELSE Save(drop_book(rows, id.val))

\* action == "delete"
delete_book(rows, r) ==
    LET id == parse_int(r.book_id)
    IN IF ~id.ok THEN Reject("Invalid book id.")
       ELSE IF Len(drop_book(rows, id.val)) = Len(rows)
       THEN Reject("Book not found.")
       ELSE Save(drop_book(rows, id.val))

\* The dashboard body after the frame is loaded, up to the call of
\* save_csv_safe or the response.
dashboard_body(rows, r) ==
    IF r.method = "POST" /\ r.action = "add" THEN add_book(rows, r)
    ELSE IF r.method = "POST" /\ r.action = "edit" THEN edit_book(rows, r)
    ELSE IF r.method = "POST" /\ r.action = "delete" THEN delete_book(rows, r)
    ELSE [kind |-> "render", flash |-> <<>>, pend |-> <<>>]

SuccessNotice(action) ==
    CASE action = "add" -> "Book added."
      [] action = "edit" -> "Book updated."
      [] OTHER -> "Book deleted."


\* ------------------------------------------------------------- responses
NoIo == [flash |-> <<>>, touched |-> {}]

NoResp ==
    [endpoint |-> "", status |-> "", to |-> "", lib |-> NoLib,
     flash |-> <<>>, touched |-> {}]

\* redirect(url_for(to, library_id=lib)) / redirect(url_for(to))
Redirect(endpoint, to, lib, flash, touched) ==
    [endpoint |-> endpoint, status |-> "redirect", to |-> to,
     lib |-> lib, flash |-> flash, touched |-> touched]

\* render_template(to, ...)
Render(endpoint, to, flash, touched) ==
    [endpoint |-> endpoint, status |-> "render", to |-> to,
     lib |-> NoLib, flash |-> flash, touched |-> touched]

\* The handler raised: a 500 response.
ServerError(endpoint, flash, touched) ==
    [endpoint |-> endpoint, status |-> "error", to |-> "",
     lib |-> NoLib, flash |-> flash, touched |-> touched]

\* The request of client c ends with response r; its locals are gone.
Finish(c, r) ==
    /\ resp' = r
    /\ pc' = [pc EXCEPT ![c] = "idle"]
    /\ req' = [req EXCEPT ![c] = NoReq]
    /\ df' = [df EXCEPT ![c] = <<>>]
    /\ pend' = [pend EXCEPT ![c] = <<>>]
    /\ io' = [io EXCEPT ![c] = NoIo]

\* ------------------------------------------------------------------ Init
InitFrom(datasets) ==
    /\ books \in datasets
    /\ bstat = IF books = <<>> THEN "missing" ELSE "ok"
    /\ session = [c \in Clients |-> NoSession]
    /\ pc = [c \in Clients |-> "idle"]
    /\ req = [c \in Clients |-> NoReq]
    /\ df = [c \in Clients |-> <<>>]
    /\ pend = [c \in Clients |-> <<>>]
    /\ io = [c \in Clients |-> NoIo]
    /\ resp = NoResp
    /\ deleted = {}
    /\ saves = 0
    /\ budget = MaxSaves
    /\ trail = <<>>
    /\ libs = Libraries
    /\ lstat = "ok"
    /\ view = NoView

Init == InitFrom(InitBooks)

\* ----------------------------------------------------------------- login
\* Mutant: the username filter is dropped.
match_username_any(username) == Librarians

\* df[df["username"].astype(str) == username]
match_username(username) ==
    SelectSeq(Librarians, LAMBDA l : l.username = username)

\* POST /login.  avail: librarians.csv could be read; propagate: the server
\* re-raises handler exceptions (debug) instead of answering 500 itself.
login_post(s, u, p, avail, propagate) ==
    LET username == form_get(u)
        password == form_get(p)
        match == match_username(username)
        back(flash, touched) ==
            [session |-> s,
             resp |-> Redirect("login", "login", NoLib, flash, touched)]
    IN IF username = <<>> \/ password = <<>>
       THEN back(<<"Please enter username and password.">>, {})
       ELSE IF ~avail
       THEN back(<<"Missing data file: librarians.csv",
                   "No librarian data available.">>, {"load_librarians"})
       ELSE IF match = <<>>
       THEN back(<<"Invalid credentials.">>, {"load_librarians"})
       ELSE IF match[1].password # password
       THEN back(<<"Invalid credentials.">>, {"load_librarians"})
       ELSE IF match[1].library_id = NoLib
       THEN \* url_for("dashboard", library_id=None) cannot be built
            [session |-> IF propagate THEN s
                         ELSE [username |-> username, library_id |-> NoLib],
             resp |-> ServerError("login", <<"Logged in.">>, {"load_librarians"})]
       ELSE [session |-> [username |-> username,
                          library_id |-> match[1].library_id],
             resp |-> Redirect("login", "dashboard", match[1].library_id,
                               <<"Logged in.">>, {"load_librarians"})]

LoginGet(c) ==
    /\ pc[c] = "idle"
    /\ Finish(c, Render("login", "librarian_login.html", <<>>, {}))
    /\ UNCHANGED <<budget, trail, libs, lstat, view, books, bstat, session, deleted, saves>>

LoginPost(c, u, p, avail, propagate) ==
    /\ pc[c] = "idle"
    /\ LET out == login_post(session[c], u, p, avail, propagate)
       IN /\ session' = [session EXCEPT ![c] = out.session]
          /\ Finish(c, out.resp)
    /\ UNCHANGED <<budget, trail, libs, lstat, view, books, bstat, deleted, saves>>

\* GET /logout: session.clear()
Logout(c) ==
    /\ pc[c] = "idle"
    /\ session' = [session EXCEPT ![c] = NoSession]
    /\ Finish(c, Redirect("logout", "home", NoLib, <<"Logged out.">>, {}))
    /\ UNCHANGED <<budget, trail, libs, lstat, view, books, bstat, deleted, saves>>

\* ------------------------------------------------------------- dashboard
\* Mutant: the dashboard is not among the protected endpoints.
protect_routes_off(s) == TRUE

\* protect_routes: the dashboard endpoint needs session["username"].
protect_routes(s) == s.username # <<>>

\* Mutant: only a missing library_id is refused.
unauthorized_none_only(s, lib) == s.library_id = NoLib

\* session_lib is None or int(session_lib) != int(library_id)
unauthorized(s, lib) == s.library_id = NoLib \/ s.library_id # lib

\* GET/POST /dashboard/<lib>, from the request's arrival to the response or
\* to the call of save_csv_safe.
DashboardEnter(c, r) ==
    /\ pc[c] = "idle"
    /\ IF ~protect_routes(session[c])
       THEN /\ Finish(c, Redirect("dashboard", "login", NoLib,
                                  <<"Please log in to continue.">>, {}))
            /\ UNCHANGED <<budget, trail, libs, lstat, view, books, bstat, session, deleted, saves>>
       ELSE IF unauthorized(session[c], r.lib)
       THEN /\ Finish(c, Redirect("dashboard", "home", NoLib,
                          <<"Unauthorized access to library dashboard.">>, {}))
            /\ UNCHANGED <<budget, trail, libs, lstat, view, books, bstat, session, deleted, saves>>
       ELSE LET ld == load_csv_safe(books, bstat)
                out == dashboard_body(ld.rows, r)
            IN CASE out.kind = "save" ->
                      /\ saves < budget
                      /\ saves' = saves + 1
                      /\ pc' = [pc EXCEPT ![c] = "loaded"]
                      /\ req' = [req EXCEPT ![c] = r]
                      /\ df' = [df EXCEPT ![c] = ld.rows]
                      /\ pend' = [pend EXCEPT ![c] = out.pend]
                      /\ io' = [io EXCEPT ![c] = [flash |-> ld.flash,
                                                  touched |-> {"load_books"}]]
                      /\ UNCHANGED <<budget, trail, libs, lstat, view, books, bstat, session, resp, deleted>>
                 [] out.kind = "redirect" ->
                      /\ Finish(c, Redirect("dashboard", "dashboard", r.lib,
                                            ld.flash \o out.flash, {"load_books"}))
                      /\ UNCHANGED <<budget, trail, libs, lstat, view, books, bstat, session, deleted, saves>>
                 [] OTHER ->
                      \* my_books, then load_books_and_libs() for shared_view
                      /\ Finish(c, Render("dashboard", "librarian_dashboard.html",
                                          ld.flash \o ld.flash,
                                          {"load_books", "load_libraries"}))
                      /\ UNCHANGED <<budget, trail, libs, lstat, view, books, bstat, session, deleted, saves>>

\* save_csv_safe, first half: to_csv opens books.csv for writing, which
\* empties it; or the open fails and nothing is written.
SaveOpen(c, ok) ==
    /\ pc[c] = "loaded"
    /\ IF ok
       THEN /\ books' = <<>>
            /\ bstat' = "zero"
            /\ pc' = [pc EXCEPT ![c] = "saving"]
            /\ UNCHANGED <<budget, trail, libs, lstat, view, session, req, df, pend, io, resp, deleted, saves>>
       ELSE /\ Finish(c, Redirect("dashboard", "dashboard", req[c].lib,
                                  io[c].flash \o <<"Error saving books.csv">>,
                                  io[c].touched \cup {"save_failed"}))
            /\ UNCHANGED <<budget, trail, libs, lstat, view, books, bstat, session, deleted, saves>>

\* What a mutation that reported success did: its action, the book_id it
\* assigned or was given, the title and author it stored, and how many rows
\* it had loaded.
Done(r, loaded, saved) ==
    [action |-> r.action,
     book_id |-> IF r.action = "add" THEN saved[Len(saved)].book_id
                 ELSE parse_int(r.book_id).val,
     title |-> form_get(r.title),
     author |-> form_get(r.author),
     before |-> Len(loaded)]

\* Mutant: the result of save_csv_safe is ignored; success is always flashed.
SaveClose_always_success(c, ok, history) ==
    /\ pc[c] = "saving"
    /\ books' = IF ok THEN to_csv(pend[c], books) ELSE books
    /\ bstat' = IF ok THEN "ok" ELSE bstat
    /\ deleted' = IF ok /\ history = "ids" /\ req[c].action = "delete"
                  THEN deleted \cup {parse_int(req[c].book_id).val}
                  ELSE deleted
    /\ trail' = IF ok /\ history = "trail"
                THEN Append(trail, Done(req[c], df[c], pend[c]))
                ELSE trail
    /\ Finish(c, Redirect("dashboard", "dashboard", req[c].lib,
                          io[c].flash
                            \o (IF ok THEN <<>> ELSE <<"Error saving books.csv">>)
                            \o <<SuccessNotice(req[c].action)>>,
                          io[c].touched
                            \cup (IF ok THEN {"save_ok"} ELSE {"save_failed"})))
    /\ UNCHANGED <<budget, libs, lstat, view, session, saves>>

\* save_csv_safe, second half: the rows are written and the file closed, or
\* the write raises; then the flash and the redirect.
SaveClose(c, ok, history) ==
    /\ pc[c] = "saving"
    /\ IF ok
       THEN /\ books' = to_csv(pend[c], books)
            /\ bstat' = "ok"
            /\ deleted' = IF history = "ids" /\ req[c].action = "delete"
                          THEN deleted \cup {parse_int(req[c].book_id).val}
                          ELSE deleted
            /\ trail' = IF history = "trail"
                        THEN Append(trail, Done(req[c], df[c], pend[c]))
                        ELSE trail
            /\ Finish(c, Redirect("dashboard", "dashboard", req[c].lib,
                                  io[c].flash \o <<SuccessNotice(req[c].action)>>,
                                  io[c].touched \cup {"save_ok"}))
            /\ UNCHANGED <<budget, libs, lstat, view, session, saves>>
       ELSE /\ Finish(c, Redirect("dashboard", "dashboard", req[c].lib,
                                  io[c].flash \o <<"Error saving books.csv">>,
                                  io[c].touched \cup {"save_failed"}))
            /\ UNCHANGED <<budget, trail, libs, lstat, view, books, bstat, session, deleted, saves>>

\* ------------------------------------------------------------------ Next
Next ==
    \/ \E c \in Clients : LoginGet(c)
    \/ \E c \in Clients :
          \E up \in LoginInputs(c), avail \in BOOLEAN, propagate \in BOOLEAN :
             LoginPost(c, up[1], up[2], avail, propagate)
    \/ \E c \in Clients : Logout(c)
    \/ \E c \in Clients, r \in DashboardRequests : DashboardEnter(c, r)
    \/ \E c \in Clients, ok \in BOOLEAN : SaveOpen(c, ok)
    \/ \E c \in Clients, ok \in BOOLEAN : SaveClose(c, ok, "off")

Spec == Init /\ [][Next]_vars

\* One browser alone, used by every librarian in turn, one request after the
\* other, with the book_ids of successful deletes recorded in `deleted`.
InitSeq == InitFrom(HistBooks)

AllLoginInputs == UNION {LoginInputs(c) : c \in Clients}

NextSeq ==
    \/ LoginGet("c1")
    \/ \E up \in AllLoginInputs, avail \in BOOLEAN, propagate \in BOOLEAN :
          LoginPost("c1", up[1], up[2], avail, propagate)
    \/ Logout("c1")
    \/ \E r \in DashboardRequests : DashboardEnter("c1", r)
    \/ \E ok \in BOOLEAN : SaveOpen("c1", ok)
    \/ \E ok \in BOOLEAN : SaveClose("c1", ok, "ids")

SpecSeq == InitSeq /\ [][NextSeq]_vars

\* ----------------------------------------------------------- query text
\* A cell read_csv found empty, and a field the left join could not fill.
NaN == <<"<NaN>">>

UpperChars ==
    <<"A", "B", "C", "D", "E", "F", "G", "H", "I", "J", "K", "L", "M",
      "N", "O", "P", "Q", "R", "S", "T", "U", "V", "W", "X", "Y", "Z">>

LowerChars ==
    <<"a", "b", "c", "d", "e", "f", "g", "h", "i", "j", "k", "l", "m",
      "n", "o", "p", "q", "r", "s", "t", "u", "v", "w", "x", "y", "z">>

\* The characters of the model in code point order, as sorted() compares.
CodePoints == <<" ", "(", ")", ",">> \o DigitChars \o UpperChars \o LowerChars

ord(ch) == CHOOSE i \in 1..Len(CodePoints) : CodePoints[i] = ch

lower_char(ch) ==
    IF \E i \in 1..Len(UpperChars) : UpperChars[i] = ch
    THEN LowerChars[CHOOSE i \in 1..Len(UpperChars) : UpperChars[i] = ch]
    ELSE ch

\* str.lower() / np.char.lower
lower(s) == [i \in 1..Len(s) |-> lower_char(s[i])]

\* np.char.find(hay, needle) != -1
contains(hay, needle) ==
    \E i \in 0..(Len(hay) - Len(needle)) :
       SubSeq(hay, i + 1, i + Len(needle)) = needle

\* Series.fillna("")
fillna(v) == IF v = NaN THEN <<>> ELSE v

\* Series.astype(str): an empty cell becomes the text "nan", or stays empty
\* where the installed pandas keeps missing values in string columns.
astype_str(v, na_text) ==
    IF v = NaN THEN (IF na_text THEN <<"n", "a", "n">> ELSE NaN) ELSE v

RECURSIVE str_lt(_, _)
\* s < t for two str
str_lt(s, t) ==
    IF t = <<>> THEN FALSE
    ELSE IF s = <<>> THEN TRUE
    ELSE IF s[1] # t[1] THEN ord(s[1]) < ord(t[1])
    ELSE str_lt(Tail(s), Tail(t))

RECURSIVE sorted(_)
\* sorted(set(s)) of a set of str
sorted(S) ==
    IF S = {} THEN <<>>
    ELSE LET m == CHOOSE x \in S : \A y \in S \ {x} : str_lt(x, y)
         IN <<m>> \o sorted(S \ {m})

RECURSIVE join(_, _)
\* sep.join(parts)
join(parts, sep) ==
    IF parts = <<>> THEN <<>>
    ELSE IF Len(parts) = 1 THEN parts[1]
    ELSE parts[1] \o sep \o join(Tail(parts), sep)

\* ----------------------------------------------------------- query engine
\* load_csv_safe("libraries.csv", ...)
load_libraries(rows, stat) ==
    IF stat = "ok" THEN [rows |-> rows, flash |-> <<>>]
    ELSE [rows |-> <<>>, flash |-> <<"Missing data file: libraries.csv">>]

\* The rows books.merge(libs, on="library_id", how="left") makes of one book.
merge_row(b, ls) ==
    LET hits == SelectSeq(ls, LAMBDA l : l.library_id = b.library_id)
        wide(name, pincode, contact) ==
            [book_id |-> b.book_id, title |-> b.title, author |-> b.author,
             library_id |-> b.library_id,
             name |-> name, pincode |-> pincode, contact |-> contact]
    IN IF hits = <<>> THEN << wide(NaN, NaN, NaN) >>
       ELSE [i \in 1..Len(hits) |->
                wide(hits[i].name, hits[i].pincode, hits[i].contact)]

RECURSIVE merge(_, _)
merge(bs, ls) ==
    IF bs = <<>> THEN <<>> ELSE merge_row(bs[1], ls) \o merge(Tail(bs), ls)

\* load_books_and_libs(): nothing when either file gives no rows.
load_books_and_libs(brows, bst, lrows, lst, na_text) ==
    LET b == load_csv_safe(brows, bst)
        l == load_libraries(lrows, lst)
        ls == [i \in 1..Len(l.rows) |->
                 [l.rows[i] EXCEPT !.pincode = astype_str(@, na_text)]]
    IN [rows |-> IF b.rows = <<>> \/ l.rows = <<>> THEN <<>>
                 ELSE merge(b.rows, ls),
        flash |-> b.flash \o l.flash]

\* filtered[["title", "author", "name", "pincode", "contact"]]
project(e) ==
    [title |-> e.title, author |-> e.author, name |-> e.name,
     pincode |-> e.pincode, contact |-> e.contact]

\* Mutant: duplicates are kept.
drop_duplicates_off(rows) == rows

RECURSIVE drop_duplicates(_)
\* DataFrame.drop_duplicates(): the first of equal rows stays.
drop_duplicates(rows) ==
    IF rows = <<>> THEN <<>>
    ELSE LET init == drop_duplicates(SubSeq(rows, 1, Len(rows) - 1))
             last == rows[Len(rows)]
         IN IF \E i \in 1..Len(init) : init[i] = last THEN init
            ELSE Append(init, last)

\* POST /search up to its response; the view keeps the terms searched for.
search(title, author, pin, brows, bst, lrows, lst, na_text) ==
    LET title_term == form_get(title)
        author_term == form_get(author)
        pincode == form_get(pin)
        ld == load_books_and_libs(brows, bst, lrows, lst, na_text)
        local == SelectSeq(ld.rows,
                    LAMBDA e : astype_str(e.pincode, na_text) = pincode)
        filtered ==
            SelectSeq(local,
               LAMBDA e :
                  /\ contains(lower(fillna(e.title)), lower(title_term))
                  /\ author_term # <<>>
                     => contains(lower(fillna(e.author)), lower(author_term)))
        results == drop_duplicates([i \in 1..Len(filtered) |-> project(filtered[i])])
        query == [title |-> title_term, author |-> author_term,
                  pincode |-> pincode]
        home(flash, touched) ==
            [view |-> [kind |-> "search_none", rows |-> <<>>, query |-> query],
             resp |-> Redirect("search", "home", NoLib, flash, touched)]
    IN IF title_term = <<>> \/ pincode = <<>>
       THEN home(<<"Please provide a title and pincode.">>, {})
       ELSE IF ld.rows = <<>>
       THEN home(ld.flash \o <<"No data available.">>,
                 {"load_books", "load_libraries"})
       ELSE IF local = <<>> \/ filtered = <<>>
       THEN home(ld.flash \o <<"No books found.">>,
                 {"load_books", "load_libraries"})
       ELSE [view |-> [kind |-> "search_results", rows |-> results,
                       query |-> query],
             resp |-> Render("search", "search_results.html", ld.flash,
                             {"load_books", "load_libraries"})]

\* d["name"].astype(str) + " (" + d["pincode"].astype(str) + ")": a missing
\* operand makes the sum missing.
location(e, na_text) ==
    LET name == astype_str(e.name, na_text)
        pincode == astype_str(e.pincode, na_text)
    IN IF name = NaN \/ pincode = NaN THEN NaN
       ELSE name \o <<" ", "(">> \o pincode \o <<")">>

\* The keys of groupby(["title", "author"]): rows with a missing key are
\* left out (dropna).
group_keys(rows) ==
    {<<rows[i].title, rows[i].author>> :
        i \in {k \in 1..Len(rows) : rows[k].title # NaN /\ rows[k].author # NaN}}

RECURSIVE sorted_keys(_)
\* groupby sorts the groups by key.
sorted_keys(K) ==
    IF K = {} THEN <<>>
    ELSE LET m == CHOOSE x \in K : \A y \in K \ {x} :
                     \/ str_lt(x[1], y[1])
                     \/ x[1] = y[1] /\ str_lt(x[2], y[2])
         IN <<m>> \o sorted_keys(K \ {m})

\* GET /all_books up to its response.
all_books(brows, bst, lrows, lst, na_text) ==
    LET ld == load_books_and_libs(brows, bst, lrows, lst, na_text)
        keys == sorted_keys(group_keys(ld.rows))
        locations(k) ==
            {location(ld.rows[i], na_text) :
                i \in {j \in 1..Len(ld.rows) :
                          ld.rows[j].title = k[1] /\ ld.rows[j].author = k[2]}}
        titles ==
            [i \in 1..Len(keys) |->
                [title |-> keys[i][1], author |-> keys[i][2],
                 locations |-> join(sorted(locations(keys[i])), <<",", " ">>)]]
    IN IF ld.rows = <<>>
       THEN [view |-> NoView,
             resp |-> Redirect("all_books", "home", NoLib,
                               ld.flash \o <<"No data available.">>,
                               {"load_books", "load_libraries"})]
       ELSE IF \E i \in 1..Len(keys) : NaN \in locations(keys[i])
       THEN \* sorted() / ", ".join() of a list holding a float raises
            [view |-> NoView,
             resp |-> ServerError("all_books", ld.flash,
                                  {"load_books", "load_libraries"})]
       ELSE [view |-> [kind |-> "all_books", rows |-> titles],
             resp |-> Render("all_books", "all_books.html", ld.flash,
                             {"load_books", "load_libraries"})]

\* get_pincodes(): sorted(libs["pincode"].dropna().unique())
get_pincodes(lrows, lst, na_text) ==
    LET l == load_libraries(lrows, lst)
        pins == {astype_str(l.rows[i].pincode, na_text) : i \in 1..Len(l.rows)}
    IN [rows |-> sorted(pins \ {NaN}), flash |-> l.flash]

\* GET /
Home(c, na_text) ==
    /\ pc[c] = "idle"
    /\ LET p == get_pincodes(libs, lstat, na_text)
       IN /\ view' = [kind |-> "home", rows |-> p.rows]
          /\ Finish(c, Render("home", "home.html", p.flash, {"load_libraries"}))
    /\ UNCHANGED <<books, bstat, session, deleted, saves, budget, trail, libs, lstat>>

\* POST /search
Search(c, title, author, pin, na_text) ==
    /\ pc[c] = "idle"
    /\ LET out == search(title, author, pin, books, bstat, libs, lstat, na_text)
       IN /\ view' = out.view
          /\ Finish(c, out.resp)
    /\ UNCHANGED <<books, bstat, session, deleted, saves, budget, trail, libs, lstat>>

\* GET /all_books
AllBooks(c, na_text) ==
    /\ pc[c] = "idle"
    /\ LET out == all_books(books, bstat, libs, lstat, na_text)
       IN /\ view' = out.view
          /\ Finish(c, out.resp)
    /\ UNCHANGED <<books, bstat, session, deleted, saves, budget, trail, libs, lstat>>

\* The catalog the public pages are asked about: two copies of one book in
\* library 5, the same title in library 7 once in lower case, a book without
\* author, and a book of a library that libraries.csv does not list.
ReadBooks ==
    << Book(1, <<"G", "o">>, <<"A">>, 5), Book(2, <<"G", "o">>, <<"A">>, 5),
       Book(3, <<"g", "o">>, <<"A">>, 7), Book(4, <<"G", "o">>, <<"A">>, 7),
       Book(5, <<"G", "o">>, NaN, 5), Book(6, <<"G", "o">>, <<"B">>, 9) >>

TitleTerms == {<<"g", "O">>, <<" ", "G", " ">>, <<"x">>, <<" ">>, Absent}

AuthorTerms == {Absent, <<"a">>, <<"b", " ">>}

PincodeTerms == {<<"0", "5">>, <<" ", "0", "5">>, <<"5">>, <<"n", "a", "n">>, Absent}

InitRead ==
    /\ books \in InitBooks \cup {ReadBooks}
    /\ bstat = IF books = <<>> THEN "missing" ELSE "ok"
    /\ libs \in {<<>>, Libraries}
    /\ lstat = IF libs = <<>> THEN "missing" ELSE "ok"
    /\ session = [c \in Clients |-> NoSession]
    /\ pc = [c \in Clients |-> "idle"]
    /\ req = [c \in Clients |-> NoReq]
    /\ df = [c \in Clients |-> <<>>]
    /\ pend = [c \in Clients |-> <<>>]
    /\ io = [c \in Clients |-> NoIo]
    /\ resp = NoResp
    /\ deleted = {}
    /\ saves = 0
    /\ budget = MaxSaves
    /\ trail = <<>>
    /\ view = NoView

NextRead ==
    \/ \E na_text \in BOOLEAN : Home("c1", na_text)
    \/ \E t \in TitleTerms, a \in AuthorTerms, p \in PincodeTerms :
          \E na_text \in BOOLEAN : Search("c1", t, a, p, na_text)
    \/ \E na_text \in BOOLEAN : AllBooks("c1", na_text)

SpecRead == InitRead /\ [][NextRead]_vars

\* One librarian alone, adding, editing and deleting one request after the
\* other, with every mutation that reported success recorded in `trail`.
\* books.csv may also start unparseable (a row with an empty library_id
\* cell, which read_csv cannot read as int).
TripIds == {<<"1">>, <<"2">>, <<"8">>, <<"9">>}

TripRequests ==
    {Post(5, "add", Absent, ValidTitle, ValidAuthor)}
    \cup {Post(5, "edit", b, <<"H">>, <<"B", " ">>) : b \in TripIds}
    \cup {Post(5, "delete", b, Absent, Absent) : b \in TripIds}

InitTrip ==
    /\ books \in InitBooks
    /\ bstat \in IF books = <<>> THEN {"missing"} ELSE {"ok", "corrupt"}
    /\ session = [c \in Clients |-> NoSession]
    /\ pc = [c \in Clients |-> "idle"]
    /\ req = [c \in Clients |-> NoReq]
    /\ df = [c \in Clients |-> <<>>]
    /\ pend = [c \in Clients |-> <<>>]
    /\ io = [c \in Clients |-> NoIo]
    /\ resp = NoResp
    /\ deleted = {}
    /\ saves = 0
    /\ budget = MaxSaves + 1
    /\ trail = <<>>
    /\ libs = Libraries
    /\ lstat = "ok"
    /\ view = NoView

NextTrip ==
    \/ \E avail \in BOOLEAN : LoginPost("c1", <<"a">>, <<"p">>, avail, FALSE)
    \/ \E r \in TripRequests : DashboardEnter("c1", r)
    \/ \E ok \in BOOLEAN : SaveOpen("c1", ok)
    \/ \E ok \in BOOLEAN : SaveClose("c1", ok, "trail")

SpecTrip == InitTrip /\ [][NextTrip]_vars

\* ================================================================ claims
Member(x, seq) == \E i \in 1..Len(seq) : seq[i] = x

BookIds(rows) == {rows[i].book_id : i \in 1..Len(rows)}

OtherRows(rows, lib) == SelectSeq(rows, LAMBDA b : b.library_id # lib)

SuccessNotices == {"Book added.", "Book updated.", "Book deleted."}

Succeeded(r) == \E n \in SuccessNotices : Member(n, r.flash)

\* Client c's request reaches its response in this step.
Answers(c) == pc[c] # "idle" /\ pc'[c] = "idle"

\* C1: a mutation that reported success through /dashboard/L left every row
\* of another library, as the handler had loaded it, untouched in the file.
C1_OnlyOwnLibraryRows ==
    [][\A c \in Clients :
          (Answers(c) /\ Succeeded(resp'))
          => OtherRows(books', req[c].lib) = OtherRows(df[c], req[c].lib)]_vars

\* C2 as stated: a dashboard request whose session has no library_id, or
\* another one than the URL's, is redirected to home, loads nothing, writes
\* nothing and leaves books.csv as it was.
C2_DeniedToHome ==
    [][\A c \in Clients : \A r \in DashboardRequests :
          ( /\ pc[c] = "idle"
            /\ session[c].library_id = NoLib \/ session[c].library_id # r.lib
            /\ pc'[c] # "idle" \/ resp'.endpoint = "dashboard"
            /\ DashboardEnter(c, r) )
          => /\ pc'[c] = "idle"
             /\ resp'.status = "redirect" /\ resp'.to = "home"
             /\ resp'.touched = {}
             /\ books' = books /\ bstat' = bstat]_vars

\* C2 amended: such a request is redirected to login when the session holds
\* no username and to home otherwise; it loads nothing, writes nothing and
\* leaves books.csv as it was.
C2_DeniedToLoginOrHome ==
    [][\A c \in Clients : \A r \in DashboardRequests :
          ( /\ pc[c] = "idle"
            /\ session[c].library_id = NoLib \/ session[c].library_id # r.lib
            /\ pc'[c] # "idle" \/ resp'.endpoint = "dashboard"
            /\ DashboardEnter(c, r) )
          => /\ pc'[c] = "idle"
             /\ resp'.status = "redirect"
             /\ resp'.to = IF session[c].username = <<>> THEN "login" ELSE "home"
             /\ resp'.touched = {}
             /\ books' = books /\ bstat' = bstat]_vars

\* The session bound to library 7 was just refused the dashboard of library 5.
C2_Witness ==
    /\ resp.endpoint = "dashboard" /\ resp.to = "home" /\ resp.touched = {}
    /\ session["c1"].library_id = 7 /\ pc["c1"] = "idle"

\* C3: the dashboard body runs only for a session that holds a username: a
\* request without one is redirected to login with nothing loaded or written,
\* a session gets its username from a login that was accepted, and logout
\* removes it.
C3_LoginRequired ==
    [][\A c \in Clients :
          /\ \A r \in DashboardRequests :
                ( /\ pc[c] = "idle"
                  /\ session[c].username = <<>>
                  /\ pc'[c] # "idle" \/ resp'.endpoint = "dashboard"
                  /\ DashboardEnter(c, r) )
                => /\ pc'[c] = "idle"
                   /\ resp'.status = "redirect" /\ resp'.to = "login"
                   /\ resp'.touched = {}
                   /\ books' = books /\ bstat' = bstat
          /\ pc'[c] # "idle" => session[c].username # <<>>
          /\ (session[c].username = <<>> /\ session'[c].username # <<>>)
             => (resp'.endpoint = "login" /\ Member("Logged in.", resp'.flash))
          /\ Logout(c) => session'[c].username = <<>>]_vars

\* After a librarian had logged in and saved, and logged out again, a
\* dashboard request of that browser was sent to the login page.
C3_Witness ==
    /\ resp.endpoint = "dashboard" /\ resp.to = "login"
    /\ session["c1"].username = <<>> /\ pc["c1"] = "idle"
    /\ saves > 0

\* C4: the book_ids in books.csv are pairwise distinct.
C4_UniqueBookIds ==
    \A i, j \in 1..Len(books) : i # j => books[i].book_id # books[j].book_id


\* The outcome of a login step of client c, the claim comparing the
\* dataset's rows with username u and password p: a login sent back to the
\* form leaves the session alone, and credentials are accepted ("Logged in.")
\* or the session changed only if a row holds u and p, the session then being
\* that row's username and library_id (or untouched when the response to a
\* row without library_id failed).
LoginOutcome(c, u, p) ==
    /\ (resp'.status = "redirect" /\ resp'.to = "login") => session'[c] = session[c]
    /\ (session'[c] # session[c] \/ Member("Logged in.", resp'.flash))
       => \E i \in 1..Len(Librarians) :
             /\ Librarians[i].username = u
             /\ Librarians[i].password = p
             /\ \/ session'[c] = [username |-> Librarians[i].username,
                                  library_id |-> Librarians[i].library_id]
                \/ Librarians[i].library_id = NoLib /\ session'[c] = session[c]

\* C5 as stated: a session is established only if a librarian row equals the
\* submitted username and password exactly; a rejected login leaves the
\* session unchanged.
C5_ExactCredentials ==
    [][\A c \in Clients : \A up \in AllLoginInputs :
          \A avail \in BOOLEAN, propagate \in BOOLEAN :
             ( /\ pc[c] = "idle"
               /\ resp'.endpoint = "login"
               /\ LoginPost(c, up[1], up[2], avail, propagate) )
             => LoginOutcome(c, up[1], up[2])]_vars

\* C5 amended: a session is established only if a librarian row equals the
\* submitted username and password once surrounding whitespace is trimmed
\* from both; a rejected login leaves the session unchanged.
C5_TrimmedCredentials ==
    [][\A c \in Clients : \A up \in AllLoginInputs :
          \A avail \in BOOLEAN, propagate \in BOOLEAN :
             ( /\ pc[c] = "idle"
               /\ resp'.endpoint = "login"
               /\ LoginPost(c, up[1], up[2], avail, propagate) )
             => LoginOutcome(c, form_get(up[1]), form_get(up[2]))]_vars

\* Librarian b has just logged in and is bound to library 7.
C5_Witness ==
    /\ session["c1"] = [username |-> <<"b">>, library_id |-> 7]
    /\ resp.endpoint = "login" /\ resp.to = "dashboard" /\ resp.lib = 7
    /\ Member("Logged in.", resp.flash)

\* C6: the frame an Add hands to save is the loaded frame plus one row, bound
\* to the caller's library, whose book_id is 1 for an empty frame and else
\* one more than the largest book_id of the whole frame ({3, 7, 2} gives 8).
C6_AddAssignsNextId ==
    \A c \in Clients :
       (pc[c] # "idle" /\ req[c].action = "add")
       => LET old == df[c]
              new == pend[c]
              id == new[Len(new)].book_id
          IN /\ Len(new) = Len(old) + 1
             /\ SubSeq(new, 1, Len(old)) = old
             /\ new[Len(new)].library_id = req[c].lib
             /\ req[c].lib = session[c].library_id
             /\ IF old = <<>> THEN id = 1
                ELSE (id - 1) \in BookIds(old) /\ \A i \in BookIds(old) : i < id
             /\ BookIds(old) = {3, 7, 2} => id = 8

\* The librarian of library 7, whose own largest book_id is 3, adds to
\* {3, 7, 2} and gets 8.
C6_Witness ==
    \E c \in Clients :
       /\ pc[c] # "idle" /\ req[c].action = "add"
       /\ session[c].library_id = 7
       /\ BookIds(df[c]) = {3, 7, 2}
       /\ pend[c][Len(pend[c])].book_id = 8

\* The j-th row of rows whose book_id is not id.
KeptRow(rows, id, j) ==
    rows[CHOOSE k \in 1..Len(rows) :
            /\ rows[k].book_id # id
            /\ Cardinality({m \in 1..k : rows[m].book_id # id}) = j]

\* Delete hands to save the loaded rows, each as it was and in the same
\* order, without those of the given book_id.
DeleteKeepsOtherRows(c) ==
    (pc[c] # "idle" /\ req[c].action = "delete")
    => LET id == parse_int(req[c].book_id).val
       IN /\ Len(pend[c]) =
                Cardinality({k \in 1..Len(df[c]) : df[c][k].book_id # id})
          /\ \A j \in 1..Len(pend[c]) : pend[c][j] = KeptRow(df[c], id, j)

\* C7 as stated: an Add never assigns the book_id of a book deleted before
\* it, and Delete leaves the book_ids of the remaining rows as they were.
C7_NoIdReuse ==
    \A c \in Clients :
       /\ (pc[c] # "idle" /\ req[c].action = "add")
          => pend[c][Len(pend[c])].book_id \notin deleted
       /\ DeleteKeepsOtherRows(c)

\* C7 amended: an Add assigns a book_id larger than every book_id of the
\* frame it loaded (so a deleted id comes back only if no remaining row has
\* one as large), and Delete leaves the remaining rows as they were.
C7_NoRecompaction ==
    \A c \in Clients :
       /\ (pc[c] # "idle" /\ req[c].action = "add")
          => \A i \in BookIds(df[c]) : i < pend[c][Len(pend[c])].book_id
       /\ DeleteKeepsOtherRows(c)

\* After a delete that reported success, a delete is leaving rows behind or
\* an add is getting its id.
C7_Witness ==
    /\ deleted # {}
    /\ \E c \in Clients :
          /\ pc[c] # "idle"
          /\ \/ req[c].action = "delete" /\ pend[c] # <<>>
             \/ req[c].action = "add" /\ df[c] # <<>>

\* C8: the frame an Edit hands to save has the loaded frame's rows, with
\* their book_id and library_id, and differs only in the title and author of
\* the rows with the given book_id, which are the submitted ones.
C8_EditFrame ==
    \A c \in Clients :
       (pc[c] # "idle" /\ req[c].action = "edit")
       => LET id == parse_int(req[c].book_id).val
          IN /\ Len(pend[c]) = Len(df[c])
             /\ id \in BookIds(df[c])
             /\ \A i \in 1..Len(df[c]) :
                   /\ pend[c][i].book_id = df[c][i].book_id
                   /\ pend[c][i].library_id = df[c][i].library_id
                   /\ IF df[c][i].book_id = id
                      THEN /\ pend[c][i].title = form_get(req[c].title)
                           /\ pend[c][i].author = form_get(req[c].author)
                      ELSE pend[c][i] = df[c][i]

\* An edit changed one row of a frame of three and is being saved.
C8_Witness ==
    \E c \in Clients :
       /\ pc[c] = "saving" /\ req[c].action = "edit"
       /\ Len(df[c]) = 3 /\ pend[c] # df[c]

\* What load_csv_safe finds in books.csv.
LoadedRows == IF bstat = "ok" THEN books ELSE <<>>

\* The POST has a blank title or author, a book_id that is no integer, or a
\* book_id no loaded row has.
MustReject(r, rows) ==
    LET id == parse_int(r.book_id)
        blank == form_get(r.title) = <<>> \/ form_get(r.author) = <<>>
    IN CASE r.action = "add" -> blank
         [] r.action = "edit" -> ~id.ok \/ blank \/ id.val \notin BookIds(rows)
         [] r.action = "delete" -> ~id.ok \/ id.val \notin BookIds(rows)
         [] OTHER -> FALSE

RejectNotices ==
    {"Title and author are required.", "Invalid book id.", "Book not found."}

\* C9: an Add, Edit or Delete with a blank title or author, a malformed
\* book_id or an unknown book_id ends with that notice and no success
\* notice, without a call of save_csv_safe and with books.csv as it was.
C9_RejectedWritesNothing ==
    [][\A c \in Clients : \A r \in DashboardRequests :
          ( /\ pc[c] = "idle"
            /\ session[c].username # <<>> /\ session[c].library_id = r.lib
            /\ r.method = "POST" /\ MustReject(r, LoadedRows)
            /\ pc'[c] # "idle" \/ resp'.endpoint = "dashboard"
            /\ DashboardEnter(c, r) )
          => /\ pc'[c] = "idle"
             /\ resp'.status = "redirect"
             /\ resp'.flash # <<>>
             /\ resp'.flash[Len(resp'.flash)] \in RejectNotices
             /\ ~Succeeded(resp')
             /\ resp'.touched = {"load_books"}
             /\ books' = books /\ bstat' = bstat]_vars

\* A delete of a book_id that no row has was just refused, rows being there.
C9_Witness ==
    /\ Member("Book not found.", resp.flash)
    /\ resp.touched = {"load_books"}
    /\ books # <<>>

\* C10: a request that called save_csv_safe flashes its success notice
\* exactly when the write completed, the file then starting with the rows
\* handed to it; otherwise it flashes the save error and no success notice.
C10_SuccessIffSaved ==
    [][\A c \in Clients :
          Answers(c)
          => /\ Succeeded(resp') <=> "save_ok" \in resp'.touched
             /\ Succeeded(resp')
                => /\ pc[c] = "saving"
                   /\ bstat' = "ok"
                   /\ Len(books') >= Len(pend[c])
                   /\ SubSeq(books', 1, Len(pend[c])) = pend[c]
                   /\ resp'.flash[Len(resp'.flash)] = SuccessNotice(req[c].action)
                   /\ ~Member("Error saving books.csv", resp'.flash)
             /\ ~Succeeded(resp')
                => /\ Member("Error saving books.csv", resp'.flash)
                   /\ "save_failed" \in resp'.touched
                   /\ books' = books /\ bstat' = bstat]_vars

\* A write failed after the file had been opened, and the error was flashed.
C10_Witness ==
    /\ Member("Error saving books.csv", resp.flash)
    /\ "save_failed" \in resp.touched
    /\ ~Succeeded(resp)
    /\ bstat = "zero"

\* C11 as stated: when a mutation that had loaded rows reports success and no
\* other request is in progress any more, books.csv holds exactly the frame
\* that writer handed to save_csv_safe: the last writer's frame replaces
\* whatever a concurrent writer stored.
C11_LastWriterWins ==
    [][\A c \in Clients :
          ( /\ pc[c] = "saving" /\ Answers(c) /\ Succeeded(resp')
            /\ df[c] # <<>>
            /\ \A d \in Clients \ {c} : pc[d] = "idle" )
          => books' = pend[c]]_vars

\* A dashboard request loads books.csv in this step.
LoadsBooks ==
    \/ \E c \in Clients : pc[c] = "idle" /\ pc'[c] = "loaded"
    \/ /\ pc' = pc
       /\ resp'.endpoint = "dashboard" /\ "load_books" \in resp'.touched

\* C12 as stated: a request that loads books.csv while a write is in
\* progress reads the rows from before the write or the rows from after it:
\* it finds the file emptied only if a write in progress started from, or is
\* storing, no rows.
C12_AtomicSave ==
    [][(LoadsBooks /\ \E w \in Clients : pc[w] = "saving")
       => \/ bstat # "zero"
          \/ \E w \in Clients : pc[w] = "saving" /\ <<>> \in {df[w], pend[w]}]_vars

\* C13 as stated: no request ends in a failure of the handler; every
\* response is a rendered page or a redirect.
C13_NoUncaughtFailure == resp.status \in {"", "render", "redirect"}

\* C14: after an Add, an Edit of the book_id it assigned and a Delete of that
\* book_id, all reporting success one after the other, books.csv has as many
\* rows as the Add had loaded; after the Edit and before the Delete it has
\* one row more and the row of that book_id carries the edited title and
\* author.
C14_RoundTrip ==
    \A i \in 1..Len(trail) :
       ( /\ i < Len(trail)
         /\ trail[i].action = "add"
         /\ trail[i + 1].action = "edit"
         /\ trail[i + 1].book_id = trail[i].book_id
         /\ bstat = "ok" )
       => /\ Len(trail) = i + 1
             => /\ Len(books) = trail[i].before + 1
                /\ \E k \in 1..Len(books) :
                      /\ books[k].book_id = trail[i].book_id
                      /\ books[k].title = trail[i + 1].title
                      /\ books[k].author = trail[i + 1].author
                      /\ books[k].title # trail[i].title
          /\ ( /\ Len(trail) = i + 2
               /\ trail[i + 2].action = "delete"
               /\ trail[i + 2].book_id = trail[i].book_id )
             => Len(books) = trail[i].before

\* Book 8 was added to three rows, edited and deleted; three rows are left.
C14_Witness ==
    /\ Len(trail) = 3
    /\ trail[1].action = "add" /\ trail[1].book_id = 8
    /\ trail[2].action = "edit" /\ trail[2].book_id = 8
    /\ trail[3].action = "delete" /\ trail[3].book_id = 8
    /\ bstat = "ok" /\ Len(books) = 3
    /\ Member("Book deleted.", resp.flash)

\* C19: a Delete that reports success leaves in books.csv the rows it loaded
\* whose book_id is not the given one, each unchanged and in the same order,
\* at least one row being gone; a Delete whose book_id no stored row has
\* answers "Book not found." without a call of save_csv_safe and leaves
\* books.csv as it was.
C19_DeleteFrame ==
    [][/\ ( /\ Answers("c1") /\ req["c1"].action = "delete"
            /\ Succeeded(resp') )
          => LET id == parse_int(req["c1"].book_id).val
                 kept == {k \in 1..Len(df["c1"]) : df["c1"][k].book_id # id}
             IN /\ Len(books') = Cardinality(kept)
                /\ Len(books') < Len(df["c1"])
                /\ \A j \in 1..Len(books') : books'[j] = KeptRow(df["c1"], id, j)
                /\ \A j \in 1..Len(books') : books'[j].book_id # id
       /\ \A r \in TripRequests :
             ( /\ pc["c1"] = "idle" /\ session["c1"].library_id = r.lib
               /\ r.action = "delete"
               /\ parse_int(r.book_id).val \notin BookIds(LoadedRows)
               /\ DashboardEnter("c1", r) )
             => /\ pc'["c1"] = "idle"
                /\ Member("Book not found.", resp'.flash)
                /\ ~Succeeded(resp')
                /\ resp'.touched = {"load_books"}
                /\ books' = books /\ bstat' = bstat]_vars

\* Book 2, the last of three rows, was just deleted; rows 3 and 7 are left.
C19_Witness ==
    /\ Member("Book deleted.", resp.flash)
    /\ trail # <<>> /\ trail[Len(trail)].action = "delete"
    /\ trail[Len(trail)].before = 3
    /\ bstat = "ok" /\ BookIds(books) = {3, 7}

\* C20: an Add loads the rows of books.csv, or none when the file is missing,
\* unparseable or empty, and when it reports success books.csv holds exactly
\* the loaded rows followed by the new row; after a load that yielded nothing
\* it holds only the new row, with book_id 1.
C20_AddPersistsLoadedPlusOne ==
    [][/\ (pc["c1"] = "idle" /\ pc'["c1"] = "loaded")
          => df'["c1"] = LoadedRows
       /\ ( /\ Answers("c1") /\ req["c1"].action = "add"
            /\ Succeeded(resp') )
          => LET old == df["c1"]
                 row == Book(new_id(old), form_get(req["c1"].title),
                             form_get(req["c1"].author), req["c1"].lib)
             IN /\ books' = Append(old, row)
                /\ bstat' = "ok"
                /\ old = <<>> => books' = << [row EXCEPT !.book_id = 1] >>]_vars

\* An Add to an unparseable books.csv flashed the load error and "Book
\* added."; the file now holds the new row alone.
C20_Witness ==
    /\ Member("Error loading books.csv", resp.flash)
    /\ Member("Book added.", resp.flash)
    /\ bstat = "ok" /\ Len(books) = 1 /\ books[1].book_id = 1
    /\ Len(trail) = 1

\* The rows of books.csv and libraries.csv as stored and readable.
StoredBooks == {books[k] : k \in {i \in 1..Len(books) : bstat = "ok"}}

StoredLibs == {libs[k] : k \in {i \in 1..Len(libs) : lstat = "ok"}}

\* text holds term, letter case aside; a missing text holds nothing.
ContainsCI(text, term) == text # NaN /\ contains(lower(text), lower(term))

\* C15 as stated: for non-empty title term and pincode, the rows a search
\* returns are exactly the five-field projections of the books joined with
\* their library whose pincode equals the given pincode, whose title holds
\* the title term and, when an author term is given, whose author holds it,
\* letter case aside.
C15_SearchMatches ==
    ( /\ view.kind \in {"search_results", "search_none"}
      /\ view.query.title # <<>> /\ view.query.pincode # <<>> )
    => LET q == view.query
           expected ==
              {[title |-> b.title, author |-> b.author, name |-> l.name,
                pincode |-> l.pincode, contact |-> l.contact] :
                 <<b, l>> \in
                    {x \in StoredBooks \X StoredLibs :
                        /\ x[2].library_id = x[1].library_id
                        /\ x[2].pincode = q.pincode
                        /\ ContainsCI(x[1].title, q.title)
                        /\ q.author # <<>> => ContainsCI(x[1].author, q.author)}}
       IN {view.rows[i] : i \in 1..Len(view.rows)} = expected

\* C16: no two rows of a search result agree on title, author, library
\* name, pincode and contact.
C16_NoDuplicateResults ==
    view.kind = "search_results"
    => \A i, j \in 1..Len(view.rows) : i # j => view.rows[i] # view.rows[j]

\* The search for "gO" by "a" at pincode 05 met four books, two of them the
\* same title and author in library 5, and returned three rows.
C16_Witness ==
    /\ view.kind = "search_results"
    /\ view.query = [title |-> <<"g", "O">>, author |-> <<"a">>,
                     pincode |-> <<"0", "5">>]
    /\ Len(view.rows) = 3
    /\ Cardinality({b \in StoredBooks : b.author = <<"A">> /\ b.library_id \in {5, 7}}) = 4

\* C17 as stated: the all-books listing has exactly one record for the
\* title and author of every book of the joined catalog.
C17_OneRecordPerPair ==
    view.kind = "all_books"
    => \A b \in StoredBooks :
          Cardinality({i \in 1..Len(view.rows) :
                          /\ view.rows[i].title = b.title
                          /\ view.rows[i].author = b.author}) = 1

\* C18 as stated: with libraries.csv readable, the joined catalog a search or
\* the all-books listing works on has every stored book exactly once, a book whose library is not listed
\* has empty strings as library name, pincode and contact, and no search
\* result is a book without a listed library.
C18_LeftJoin ==
    (resp.endpoint \in {"search", "all_books"} /\ lstat = "ok")
    => \A na_text \in BOOLEAN :
          LET e == load_books_and_libs(books, bstat, libs, lstat, na_text).rows
          IN /\ \A b \in StoredBooks :
                   Cardinality({i \in 1..Len(e) : e[i].book_id = b.book_id}) = 1
             /\ \A i \in 1..Len(e) :
                   (\A l \in StoredLibs : l.library_id # e[i].library_id)
                   => e[i].name = <<>> /\ e[i].pincode = <<>> /\ e[i].contact = <<>>
             /\ view.kind = "search_results"
                => \A i \in 1..Len(view.rows) :
                      \E l \in StoredLibs : l.name = view.rows[i].name

====
